---- MODULE Spec2Model ----
(***************************************************************************)
(* TETRAPOL physical channel receiver (lib/phys_ch.c): bit buffer, frame   *)
(* synchronisation, frame decoding pipeline and blind SCR detection.       *)
(* Bits are the integers 0 and 1.  C arrays are sequences; a C index i is  *)
(* the sequence index i + 1.                                               *)
(***************************************************************************)
EXTENDS Integers, Sequences, FiniteSets, TLC

VARIABLES
  phys_ch,   \* struct _phys_ch_t: the channel object
  call,      \* the last API call: its name, arguments, entry summary, result
  acq,       \* what find_frame_sync did in the last process() call
  frames,    \* the frames get_frame produced in the last process() call
  trace,     \* calls made to the upper layers in the last process() call
  bad_run,   \* consecutive frames that took the failure branch of get_frame
  n_calls,   \* recv, set_scr and set_scr_confidence calls so far
  upper      \* how multiblock_process treats df->frame_no

vars == <<phys_ch, call, acq, frames, trace, bad_run, n_calls, upper>>

----------------------------------------------------------------------------
(* Program constants *)

MAX_FRAME_SYNC_ERR == 1
FRAME_HDR_LEN == 8
FRAME_DATA_LEN == 152
FRAME_LEN == FRAME_HDR_LEN + FRAME_DATA_LEN
DATA_SIZE == 10 * FRAME_LEN          \* sizeof(phys_ch->data)
SCR_STAT_LEN == 128                  \* ARRAY_LEN(phys_ch->scr_stat)
FRAME_NO_MOD == 200
DEFAULT_SCR_CONFIDENCE == 50

\* Values of the headers that are not part of lib/phys_ch.c
FRAME_NO_UNKNOWN == -1
PHYS_CH_SCR_DETECT == -1
FRAME_TYPE_DATA == 1
TETRAPOL_BAND_VHF == 1
TETRAPOL_BAND_UHF == 2
TETRAPOL_RCH_CONTROL == 1
TETRAPOL_RCH_TRAFFIC == 2

XOR(a, b) == IF a = b THEN 0 ELSE 1

Min2(a, b) == IF a < b THEN a ELSE b

SetMin(S) == CHOOSE x \in S : \A y \in S : x <= y

\* Sum of s[lo..hi].  Loops over an array are folded by halving the range,
\* which visits the indices in ascending order.
RECURSIVE SeqSumRange(_, _, _)
SeqSumRange(s, lo, hi) ==
  IF lo > hi THEN 0
  ELSE IF lo = hi THEN s[lo]
  ELSE LET mid == (lo + hi) \div 2
       IN  SeqSumRange(s, lo, mid) + SeqSumRange(s, mid + 1, hi)

SeqSum(s) == SeqSumRange(s, 1, Len(s))

----------------------------------------------------------------------------
(* Constant tables *)

scramb_table ==
  <<
    1, 1, 1, 1, 1, 1, 1, 0, 1, 0, 1, 0, 1, 0, 0, 1,
    1, 0, 0, 1, 1, 1, 0, 1, 1, 1, 0, 1, 0, 0, 1, 0,
    1, 1, 0, 0, 0, 1, 1, 0, 1, 1, 1, 1, 0, 1, 1, 0,
    1, 0, 1, 1, 0, 1, 1, 0, 0, 1, 0, 0, 1, 0, 0, 0,
    1, 1, 1, 0, 0, 0, 0, 1, 0, 1, 1, 1, 1, 1, 0, 0,
    1, 0, 1, 0, 1, 1, 1, 0, 0, 1, 1, 0, 1, 0, 0, 0,
    1, 0, 0, 1, 1, 1, 1, 0, 0, 0, 1, 0, 1, 0, 0, 0,
    0, 1, 1, 0, 0, 0, 0, 0, 1, 0, 0, 0, 0, 0, 0
  >>

interleave_data_UHF ==
  <<
    1, 77, 38, 114, 20, 96, 59, 135, 3, 79, 41, 117, 23, 99, 62, 138,
    5, 81, 44, 120, 26, 102, 65, 141, 8, 84, 47, 123, 29, 105, 68, 144,
    11, 87, 50, 126, 32, 108, 71, 147, 14, 90, 53, 129, 35, 111, 74, 150,
    17, 93, 56, 132, 37, 112, 76, 148, 2, 88, 40, 115, 19, 97, 58, 133,
    4, 75, 43, 118, 22, 100, 61, 136, 7, 85, 46, 121, 25, 103, 64, 139,
    10, 82, 49, 124, 28, 106, 67, 142, 13, 91, 52, 127, 31, 109, 73, 145,
    16, 94, 55, 130, 34, 113, 70, 151, 0, 80, 39, 116, 21, 95, 57, 134,
    6, 78, 42, 119, 24, 98, 60, 137, 9, 83, 45, 122, 27, 101, 63, 140,
    12, 86, 48, 125, 30, 104, 66, 143, 15, 89, 51, 128, 33, 107, 69, 146,
    18, 92, 54, 131, 36, 110, 72, 149
  >>

diff_precod_UHF ==
  <<
    1, 1, 1, 1, 1, 1, 1, 2, 1, 1, 2, 1, 1, 2, 1, 1,
    2, 1, 1, 2, 1, 1, 2, 1, 1, 2, 1, 1, 2, 1, 1, 2,
    1, 1, 2, 1, 1, 2, 1, 1, 2, 1, 1, 2, 1, 1, 2, 1,
    1, 2, 1, 1, 2, 1, 1, 2, 1, 1, 2, 1, 1, 2, 1, 1,
    2, 1, 1, 2, 1, 1, 2, 1, 1, 2, 1, 1, 2, 1, 1, 1,
    1, 1, 1, 2, 1, 1, 2, 1, 1, 2, 1, 1, 2, 1, 1, 2,
    1, 1, 2, 1, 1, 2, 1, 1, 2, 1, 1, 2, 1, 1, 2, 1,
    1, 2, 1, 1, 2, 1, 1, 2, 1, 1, 2, 1, 1, 2, 1, 1,
    2, 1, 1, 2, 1, 1, 2, 1, 1, 2, 1, 1, 2, 1, 1, 2,
    1, 1, 2, 1, 1, 2, 1, 1
  >>

frame_dsync == <<1, 0, 1, 0, 0, 1, 1>>

----------------------------------------------------------------------------
(* Pure functions of the decoding pipeline *)

\* differential_dec: for each byte in ascending order,
\*   last_bit = *data = *data ^ last_bit.
\* differential_dec_range rewrites d[lo..hi] starting from last_bit.
RECURSIVE differential_dec_range(_, _, _, _)
differential_dec_range(d, lo, hi, last_bit) ==
  IF lo > hi THEN <<>>
  ELSE IF lo = hi THEN <<XOR(d[lo], last_bit)>>
  ELSE LET mid == (lo + hi) \div 2
           left == differential_dec_range(d, lo, mid, last_bit)
       IN  left \o differential_dec_range(d, mid + 1, hi, left[Len(left)])

\* variant of differential_dec: each bit is XORed with the bit received before
\* it, not with the bit written before it
differential_dec_adjacent(d, size, last_bit) ==
  [i \in 1..size |-> XOR(d[i], IF i = 1 THEN last_bit ELSE d[i - 1])] \o <<>>

differential_dec(d, size, last_bit) == differential_dec_range(d, 1, size, last_bit)

\* cmp_frame_sync(data + offs): sync errors of the header starting at C index offs
sync_bit_err(d, offs, i) == IF frame_dsync[i + 1] # d[offs + i + 2] THEN 1 ELSE 0

cmp_frame_sync(d, offs) ==
  sync_bit_err(d, offs, 0) + sync_bit_err(d, offs, 1) + sync_bit_err(d, offs, 2) +
  sync_bit_err(d, offs, 3) + sync_bit_err(d, offs, 4) + sync_bit_err(d, offs, 5) +
  sync_bit_err(d, offs, 6)

\* variant of frame_descramble: scr = 0 does not return early
frame_descramble_always(d, scr) ==
  [k \in 1..FRAME_DATA_LEN |->
     XOR(d[k], scramb_table[((k - 1 + scr) % Len(scramb_table)) + 1])] \o <<>>

\* frame_descramble: no-op for scr = 0, else XOR with the shifted table
frame_descramble(d, scr) ==
  IF scr = 0 THEN d
  ELSE [k \in 1..FRAME_DATA_LEN |->
          XOR(d[k], scramb_table[((k - 1 + scr) % Len(scramb_table)) + 1])] \o <<>>

\* frame_diff_dec: for j = 151 down to 1, data[j] ^= data[j - diff_precod_UHF[j]].
\* The loop runs downwards and reads an index below j, which it has not yet
\* rewritten, so every read sees the original value.
frame_diff_dec(d) ==
  [j \in 1..FRAME_DATA_LEN |->
     IF j = 1 THEN d[1] ELSE XOR(d[j], d[j - diff_precod_UHF[j]])] \o <<>>

\* frame_deinterleave: data[j] = tmp[int_table[j]]
frame_deinterleave(d, int_table) ==
  [j \in 1..FRAME_DATA_LEN |-> d[int_table[j] + 1]] \o <<>>

\* GET_IN_(x, y) of channel_decoder: in[(x + y) % (2 * res_len)]
GET_IN(in, a, b, res_len) == in[((a + b) % (2 * res_len)) + 1]

\* channel_decoder: res, err and the number of errors
channel_decoder(in, res_len) ==
  LET res == [i \in 1..res_len |->
                XOR(GET_IN(in, 2 * (i - 1), 2, res_len),
                    GET_IN(in, 2 * (i - 1), 3, res_len))] \o <<>>
      err == [i \in 1..res_len |->
                XOR(XOR(XOR(GET_IN(in, 2 * (i - 1), 5, res_len),
                            GET_IN(in, 2 * (i - 1), 6, res_len)),
                        GET_IN(in, 2 * (i - 1), 7, res_len)),
                    res[i])] \o <<>>
  IN  [res |-> res, err |-> err, errs |-> SeqSum(err)]

\* frame_decode_data: 26 bits from the first 52, 50 bits from the other 100
frame_decode_data(d, frame_no) ==
  LET a == channel_decoder(SubSeq(d, 1, 52), 26)
      b == channel_decoder(SubSeq(d, 53, FRAME_DATA_LEN), 50)
  IN  [data |-> a.res \o b.res, err |-> a.err \o b.err,
       errs |-> a.errs + b.errs, frame_no |-> frame_no]

\* CRC of data frames (decoded_frame.c): CRC-5 of the first 69 decoded bits,
\* compared with bits 69..73.
mk_crc5_step(r, bit) ==
  LET inv == XOR(bit, r[1])
  IN  <<r[2], r[3], XOR(r[4], inv), r[5], inv>>

RECURSIVE mk_crc5_range(_, _, _, _)
mk_crc5_range(input, lo, hi, r) ==
  IF lo > hi THEN r
  ELSE IF lo = hi THEN mk_crc5_step(r, input[lo])
  ELSE LET mid == (lo + hi) \div 2
           left == mk_crc5_range(input, lo, mid, r)
       IN  \* the test only makes the first half be computed before the second
           IF Len(left) = 5 THEN mk_crc5_range(input, mid + 1, hi, left) ELSE left

mk_crc5(input, input_len) ==
  LET res == mk_crc5_range(input, 1, input_len, <<0, 0, 0, 0, 0>>)
  IN  <<XOR(res[1], 1), XOR(res[2], 1), XOR(res[3], 1), XOR(res[4], 1), XOR(res[5], 1)>>

decoded_frame_check_crc(df, frame_type) ==
  /\ frame_type = FRAME_TYPE_DATA
  /\ mk_crc5(df.data, 69) = SubSeq(df.data, 70, 74)

\* One trial of detect_scr's first loop: does the frame decode and pass the
\* CRC when descrambled with scr?
scr_trial(d, scr, band) ==
  LET f1 == frame_descramble(d, scr)
      f2 == IF band = TETRAPOL_BAND_VHF THEN f1
            ELSE frame_deinterleave(frame_diff_dec(f1), interleave_data_UHF)
      df == frame_decode_data(f2, FRAME_NO_UNKNOWN)
  IN  IF df.errs # 0 THEN FALSE
      ELSE decoded_frame_check_crc(df, FRAME_TYPE_DATA)

----------------------------------------------------------------------------
(* Inputs: bit streams handed to tetrapol_recv2 *)

KA == 42    \* scrambling constant of the A, X and T frames
KB == 2     \* scrambling constant of the B frames

RawA ==
  <<
    1, 1, 0, 1, 0, 1, 1, 0, 0, 1, 1, 1, 1, 1, 1, 1, 1, 0, 1, 0, 0, 1, 0, 1, 0, 1, 0, 1, 1, 1, 0, 1, 1, 0, 1, 1, 0, 1,
    1, 1, 1, 1, 1, 0, 0, 0, 1, 1, 1, 0, 0, 0, 1, 1, 0, 1, 1, 0, 0, 0, 0, 0, 0, 0, 0, 1, 0, 0, 0, 0, 1, 0, 0, 1, 0, 1,
    1, 0, 0, 0, 1, 1, 1, 1, 0, 1, 1, 1, 1, 1, 1, 1, 0, 0, 1, 0, 1, 1, 1, 0, 0, 1, 1, 0, 1, 0, 0, 0, 0, 0, 1, 1, 1, 0,
    1, 0, 1, 1, 0, 0, 1, 1, 0, 1, 1, 0, 1, 1, 0, 0, 1, 0, 1, 1, 0, 0, 0, 0, 1, 0, 0, 1, 1, 0, 1, 0, 1, 0, 0, 1, 0, 1
  >>

RawB ==
  <<
    1, 1, 1, 0, 1, 0, 1, 1, 0, 0, 1, 1, 0, 1, 1, 1, 1, 1, 0, 1, 1, 1, 1, 0, 0, 0, 1, 1, 0, 0, 1, 0, 0, 1, 0, 0, 0, 1,
    0, 0, 0, 0, 0, 1, 1, 0, 0, 1, 1, 0, 1, 1, 0, 1, 0, 0, 0, 0, 0, 0, 1, 0, 1, 0, 1, 0, 0, 0, 1, 0, 0, 0, 1, 1, 1, 1,
    1, 0, 1, 1, 1, 0, 0, 0, 1, 0, 1, 1, 0, 1, 1, 1, 0, 1, 0, 0, 1, 1, 0, 0, 1, 1, 0, 0, 1, 0, 1, 0, 0, 0, 1, 0, 0, 0,
    0, 0, 0, 0, 1, 0, 0, 1, 1, 0, 0, 1, 1, 0, 0, 1, 0, 1, 1, 0, 0, 0, 0, 1, 1, 0, 1, 0, 1, 0, 1, 0, 0, 1, 0, 0, 1, 1
  >>

RawX ==
  <<
    1, 1, 0, 1, 1, 0, 0, 0, 1, 0, 1, 0, 0, 0, 0, 1, 0, 0, 0, 1, 1, 0, 1, 0, 0, 1, 1, 1, 1, 0, 1, 1, 1, 1, 0, 1, 1, 1,
    1, 1, 0, 0, 0, 1, 1, 1, 0, 1, 1, 1, 1, 1, 1, 1, 1, 1, 1, 0, 0, 0, 1, 0, 0, 0, 1, 1, 1, 0, 0, 1, 0, 1, 0, 1, 0, 1,
    0, 1, 1, 1, 1, 0, 1, 1, 0, 0, 0, 1, 1, 1, 1, 0, 0, 0, 0, 1, 1, 1, 0, 0, 0, 0, 1, 0, 1, 0, 0, 0, 0, 0, 0, 0, 0, 0,
    1, 0, 0, 1, 1, 0, 0, 1, 0, 1, 0, 1, 0, 1, 1, 0, 0, 1, 0, 0, 0, 0, 0, 0, 0, 1, 1, 1, 0, 0, 1, 1, 1, 1, 0, 1, 1, 0
  >>

RawT ==
  <<
    1, 0, 0, 0, 0, 0, 1, 0, 0, 0, 1, 1, 0, 1, 0, 1, 1, 0, 0, 0, 0, 0, 0, 1, 0, 0, 1, 0, 1, 1, 1, 1, 0, 1, 1, 0, 1, 1,
    1, 1, 0, 1, 0, 0, 1, 1, 1, 0, 0, 0, 0, 0, 0, 1, 0, 0, 1, 0, 1, 1, 1, 0, 1, 0, 1, 1, 0, 0, 0, 0, 0, 1, 0, 1, 1, 1,
    1, 0, 1, 1, 0, 1, 1, 0, 1, 0, 1, 1, 0, 0, 0, 0, 1, 0, 0, 1, 1, 0, 1, 0, 1, 1, 0, 0, 0, 0, 0, 1, 1, 0, 0, 0, 0, 1,
    0, 1, 0, 1, 0, 0, 0, 1, 0, 0, 1, 0, 1, 0, 1, 0, 1, 1, 0, 1, 0, 0, 1, 0, 0, 0, 0, 0, 0, 1, 1, 0, 0, 0, 1, 0, 0, 1
  >>

\* detect_scr, the 128 trials of one frame
scr_trials(d, band) ==
  [k \in 1..SCR_STAT_LEN |-> scr_trial(d, k - 1, band)] \o <<>>

\* The same frame gives the same results every time it is decoded.  The
\* results for the payloads of the input frames are tabulated once:
\* KnownPayloads is differential_dec of the raw payloads, KnownTrials the
\* trials of detect_scr, KnownDecoded the decoding of process_frame_cch for the
\* scrambling constants of TabulatedScr.  Any other payload is computed.
KnownRaw == <<RawA, RawB, RawX, RawT>>

KnownPayloads ==
  [i \in 1..Len(KnownRaw) |-> differential_dec(KnownRaw[i], FRAME_DATA_LEN, 0)] \o <<>>

KnownTrials ==
  [i \in 1..Len(KnownPayloads) |-> scr_trials(KnownPayloads[i], TETRAPOL_BAND_UHF)] \o <<>>

TabulatedScr == <<0, KB, KA, SCR_STAT_LEN - 1>>

\* process_frame_cch: descramble, differential precoding, deinterleave, decode
cch_decode(d, scr) ==
  frame_decode_data(
    frame_deinterleave(frame_diff_dec(frame_descramble(d, scr)), interleave_data_UHF),
    FRAME_NO_UNKNOWN)

KnownDecoded ==
  [i \in 1..Len(KnownPayloads) |->
     [j \in 1..Len(TabulatedScr) |-> cch_decode(KnownPayloads[i], TabulatedScr[j])] \o <<>>] \o <<>>

IndexOf(seq, x) ==
  IF \E i \in 1..Len(seq) : seq[i] = x
  THEN CHOOSE i \in 1..Len(seq) : seq[i] = x
  ELSE 0

get_frame_payload_at(raw, i) ==
  IF i > 0 THEN KnownPayloads[i] ELSE differential_dec(raw, FRAME_DATA_LEN, 0)

\* get_frame: memcpy of the payload and differential_dec(frame->data, 152, 0)
get_frame_payload(raw) == get_frame_payload_at(raw, IndexOf(KnownRaw, raw))

scr_trials_at(d, band, i) ==
  IF band = TETRAPOL_BAND_UHF /\ i > 0 THEN KnownTrials[i] ELSE scr_trials(d, band)

scr_trials_of(d, band) == scr_trials_at(d, band, IndexOf(KnownPayloads, d))

cch_decode_at(d, scr, i, j) ==
  IF i > 0 /\ j > 0 THEN KnownDecoded[i][j] ELSE cch_decode(d, scr)

cch_decode_of(d, scr) ==
  cch_decode_at(d, scr, IndexOf(KnownPayloads, d), IndexOf(TabulatedScr, scr))


\* Frame headers: the seed bit, then the sync word with 0, 1, 1 and 2 bit errors
H0 == <<0, 1, 0, 1, 0, 0, 1, 1>>
H1 == <<0, 1, 0, 1, 0, 0, 1, 0>>
H1b == <<0, 0, 0, 1, 0, 0, 1, 1>>
H2 == <<0, 1, 1, 1, 0, 0, 1, 0>>

FrameA == H0 \o RawA      \* valid data frame, scrambled with KA
FrameB == H0 \o RawB      \* valid data frame, scrambled with KB
FrameX == H2 \o RawX      \* bad sync word; decodes with KA, wrong CRC
FrameT == H2 \o RawT      \* bad sync word; decodes with KA, not a data frame
FrameA2 == H2 \o RawA     \* bad sync word; valid data frame with KA

\* two clean frames
ChunkA == FrameA \o FrameA
\* four clean frames of another scrambling constant
ChunkB == FrameB \o FrameB \o FrameB \o FrameB
\* two frames with one sync error each, then a clean frame
ChunkE == (H1 \o RawA) \o (H1b \o RawA) \o FrameA
\* eleven frames, each with two sync errors: more than the buffer holds
ChunkBig ==
  FrameX \o FrameT \o FrameA2 \o FrameA2 \o FrameX \o FrameT \o
  FrameA2 \o FrameA2 \o FrameX \o FrameT \o FrameA2

Chunks == <<ChunkA, ChunkB, ChunkE, ChunkBig>>

\* the len argument tried with a buffer: all of it, and never more than 100
\* bits over the capacity of the channel
RecvLens(buf) == {Min2(Len(buf), DATA_SIZE + 100)}

ScrInputs == {KA}
ConfidenceInputs == {1}

\* what multiblock_process leaves in df->frame_no: the number it was handed,
\* or a number it has learnt when it was handed FRAME_NO_UNKNOWN
FRAME_NO_LEARNT == 198
MbOracles == {"keep", "learn"}

\* recv, set_scr and set_scr_confidence calls in one behaviour
MaxCalls == 3

----------------------------------------------------------------------------
(* The channel object *)

\* tetrapol_phys_ch_create
tetrapol_phys_ch_create(band, rch_type) ==
  [ band |-> band,
    rch_type |-> rch_type,
    last_sync_err |-> 0,
    total_sync_err |-> 0,
    has_frame_sync |-> FALSE,
    frame_no |-> FRAME_NO_UNKNOWN,
    scr |-> PHYS_CH_SCR_DETECT,
    scr_guess |-> 0,
    scr_confidence |-> DEFAULT_SCR_CONFIDENCE,
    scr_stat |-> [k \in 0..(SCR_STAT_LEN - 1) |-> 0],
    data_len |-> 0,
    data |-> <<>> ]

\* tetrapol_phys_ch_set_scr
tetrapol_phys_ch_set_scr(ch, scr) ==
  [ch EXCEPT !.scr = scr, !.scr_stat = [k \in 0..(SCR_STAT_LEN - 1) |-> 0]]

\* tetrapol_phys_ch_set_scr_confidence
tetrapol_phys_ch_set_scr_confidence(ch, scr_confidence) ==
  [ch EXCEPT !.scr_confidence = scr_confidence]

\* variant of recv_len: the length is not cut down to the free space
recv_len_all(len, space) == len

\* tetrapol_recv2: len = (len > space) ? space : len
recv_len(len, space) == IF len > space THEN space ELSE len

\* variant of recv_copy: the new bits are put before the buffered bits
recv_copy_front(ch, buf, n) ==
  [ch |-> [ch EXCEPT !.data = SubSeq(buf, 1, n) \o @, !.data_len = @ + n],
   ret |-> n]

\* tetrapol_recv2: memcpy; data_len += len; return len
recv_copy(ch, buf, n) ==
  [ch |-> [ch EXCEPT !.data = @ \o SubSeq(buf, 1, n), !.data_len = @ + n],
   ret |-> n]

tetrapol_recv2(ch, buf, len) ==
  recv_copy(ch, buf, recv_len(len, DATA_SIZE - ch.data_len))

----------------------------------------------------------------------------
(* Frame synchronisation *)

\* variant of sync_err_ok: < in place of <=
sync_err_ok_strict(sync_err) == sync_err < MAX_FRAME_SYNC_ERR

\* the test of find_frame_sync and, with the last frame's errors, of get_frame
sync_err_ok(sync_err) == sync_err <= MAX_FRAME_SYNC_ERR

\* errors of the two sync words of a frame pair starting at offs
pair_sync_err(d, offs) == cmp_frame_sync(d, offs) + cmp_frame_sync(d, offs + FRAME_LEN)

\* find_frame_sync: the offsets the while loop may test
scan_offsets(ch) == 0..(ch.data_len - FRAME_LEN - FRAME_HDR_LEN - 1)

\* variant of find_frame_sync_end: the first data_len - offs bits are kept
find_frame_sync_end_head(ch, offs, found) ==
  [ret |-> IF found THEN 1 ELSE 0,
   offs |-> offs,
   ch |-> [ch EXCEPT !.data_len = @ - offs,
                     !.data = SubSeq(@, 1, Len(@) - offs),
                     !.last_sync_err = IF found THEN 0 ELSE @,
                     !.total_sync_err = IF found THEN 0 ELSE @]]

\* find_frame_sync, after the loop: data_len -= offs; memmove; the result
find_frame_sync_end(ch, offs, found) ==
  [ret |-> IF found THEN 1 ELSE 0,
   offs |-> offs,
   ch |-> [ch EXCEPT !.data_len = @ - offs,
                     !.data = SubSeq(@, offs + 1, Len(@)),
                     !.last_sync_err = IF found THEN 0 ELSE @,
                     !.total_sync_err = IF found THEN 0 ELSE @]]

\* variant of find_frame_sync_scan: a failed scan leaves FRAME_LEN bits
find_frame_sync_scan_short(ch, hits) ==
  IF hits # {} THEN find_frame_sync_end(ch, SetMin(hits), TRUE)
  ELSE IF ch.data_len <= FRAME_LEN THEN find_frame_sync_end(ch, 0, FALSE)
  ELSE find_frame_sync_end(ch, ch.data_len - FRAME_LEN, FALSE)

\* find_frame_sync, the loop: offs stops at the first offset whose pair of sync
\* words passes, or where offs + FRAME_LEN + FRAME_HDR_LEN < data_len fails
find_frame_sync_scan(ch, hits) ==
  IF hits # {} THEN find_frame_sync_end(ch, SetMin(hits), TRUE)
  ELSE IF scan_offsets(ch) = {} THEN find_frame_sync_end(ch, 0, FALSE)
  ELSE find_frame_sync_end(ch, ch.data_len - FRAME_LEN - FRAME_HDR_LEN, FALSE)

\* variant of find_frame_sync: a failed scan discards nothing
find_frame_sync_keep(ch) ==
  IF {o \in scan_offsets(ch) : sync_err_ok(pair_sync_err(ch.data, o))} = {}
  THEN find_frame_sync_end(ch, 0, FALSE)
  ELSE find_frame_sync_scan(ch,
         {o \in scan_offsets(ch) : sync_err_ok(pair_sync_err(ch.data, o))})

find_frame_sync(ch) ==
  find_frame_sync_scan(ch,
    {o \in scan_offsets(ch) : sync_err_ok(pair_sync_err(ch.data, o))})

\* get_frame: total_sync_err = 1 + 2 * total_sync_err
next_total_sync_err(total) == 1 + 2 * total

\* variant of sync_lost: FRAME_HDR_LEN in place of FRAME_LEN
sync_lost_hdr(total) == total >= FRAME_HDR_LEN

\* get_frame: if (total_sync_err >= FRAME_LEN) return -1
sync_lost(total) == total >= FRAME_LEN

\* variant of get_frame_sync: last_sync_err is not stored
get_frame_sync_nolast(ch, sync_err, failed, total) ==
  IF failed /\ sync_lost(total)
  THEN [r |-> -1, ch |-> [ch EXCEPT !.total_sync_err = total], failed |-> TRUE]
  ELSE [r |-> 1,
        failed |-> failed,
        sync_err |-> sync_err,
        frame |-> [frame_no |-> ch.frame_no,
                   data |-> get_frame_payload(
                              SubSeq(ch.data, FRAME_HDR_LEN + 1, FRAME_LEN))],
        ch |-> [ch EXCEPT !.total_sync_err = total,
                          !.data_len = @ - FRAME_LEN,
                          !.data = SubSeq(@, FRAME_LEN + 1, Len(@))]]

\* get_frame, from the sync check on
get_frame_sync(ch, sync_err, failed, total) ==
  IF failed /\ sync_lost(total)
  THEN [r |-> -1, ch |-> [ch EXCEPT !.total_sync_err = total], failed |-> TRUE]
  ELSE [r |-> 1,
        failed |-> failed,
        sync_err |-> sync_err,
        frame |-> [frame_no |-> ch.frame_no,
                   data |-> get_frame_payload(
                              SubSeq(ch.data, FRAME_HDR_LEN + 1, FRAME_LEN))],
        ch |-> [ch EXCEPT !.total_sync_err = total,
                          !.last_sync_err = sync_err,
                          !.data_len = @ - FRAME_LEN,
                          !.data = SubSeq(@, FRAME_LEN + 1, Len(@))]]

get_frame_check(ch, sync_err, failed) ==
  get_frame_sync(ch, sync_err, failed,
                 IF failed THEN next_total_sync_err(ch.total_sync_err) ELSE 0)

\* variant of get_frame_cmp: >= in place of > in the sync check
get_frame_cmp_ge(ch, sync_err) ==
  get_frame_check(ch, sync_err, sync_err + ch.last_sync_err >= MAX_FRAME_SYNC_ERR)

\* get_frame: if (sync_err + last_sync_err > MAX_FRAME_SYNC_ERR)
get_frame_cmp(ch, sync_err) ==
  get_frame_check(ch, sync_err, ~sync_err_ok(sync_err + ch.last_sync_err))

get_frame(ch) ==
  IF ch.data_len < FRAME_LEN
  THEN [r |-> 0, ch |-> ch, failed |-> FALSE]
  ELSE get_frame_cmp(ch, cmp_frame_sync(ch.data, 0))

----------------------------------------------------------------------------
(* SCR detection *)

\* variant of scr_stat_update: the score is not kept from going below 0
scr_stat_update_noclamp(stat, passed) ==
  IF passed THEN stat + 1 ELSE stat - 2

\* detect_scr: scr_stat[scr] -= 2, not below 0, when the trial fails;
\* ++scr_stat[scr] when it passes
scr_stat_update(stat, passed) ==
  IF passed THEN stat + 1
  ELSE IF stat - 2 < 0 THEN 0 ELSE stat - 2

\* detect_scr: one step of the search for the two best SCRs
\* variant of scr_scan_step: > in place of >=
scr_scan_step_gt(stat, best, scr) ==
  IF stat[scr] > stat[best.scr_max]
  THEN [scr_max |-> scr, scr_max2 |-> best.scr_max]
  ELSE best

\* detect_scr, one step of the search loop
scr_scan_step(stat, best, scr) ==
  IF stat[scr] >= stat[best.scr_max]
  THEN [scr_max |-> scr, scr_max2 |-> best.scr_max]
  ELSE best

RECURSIVE scr_scan(_, _, _, _)
scr_scan(stat, lo, hi, best) ==
  IF lo > hi THEN best
  ELSE IF lo = hi THEN scr_scan_step(stat, best, lo)
  ELSE LET mid == (lo + hi) \div 2
           left == scr_scan(stat, lo, mid, best)
       IN  \* the test only makes the first half be computed before the second
           IF left.scr_max >= 0 THEN scr_scan(stat, mid + 1, hi, left) ELSE left

\* variant of scr_confident: >= in place of >
scr_confident_ge(stat_max, stat_max2, scr_confidence) ==
  stat_max - scr_confidence >= stat_max2

\* detect_scr: the confidence test
scr_confident(stat_max, stat_max2, scr_confidence) ==
  stat_max - scr_confidence > stat_max2

\* detect_scr, the first loop: the statistics after the 128 trials
detect_scr_update(stat, passed) ==
  [scr \in 0..(SCR_STAT_LEN - 1) |-> scr_stat_update(stat[scr], passed[scr + 1])]

detect_scr_stat(ch, f) == detect_scr_update(ch.scr_stat, scr_trials_of(f.data, ch.band))

\* detect_scr, the search: scr_max and scr_max2
detect_scr_best(stat) ==
  scr_scan(stat, 2, SCR_STAT_LEN - 1,
           IF stat[0] < stat[1]
           THEN [scr_max |-> 1, scr_max2 |-> 0]
           ELSE [scr_max |-> 0, scr_max2 |-> 1])

\* detect_scr, the end: set scr when confident, and scr_guess
detect_scr_commit(ch, stat, best) ==
  [ch EXCEPT !.scr_stat = stat,
             !.scr = IF scr_confident(stat[best.scr_max], stat[best.scr_max2],
                                      ch.scr_confidence)
                     THEN best.scr_max ELSE @,
             !.scr_guess = best.scr_max]

detect_scr_search(ch, stat) == detect_scr_commit(ch, stat, detect_scr_best(stat))

detect_scr(ch, f) == detect_scr_search(ch, detect_scr_stat(ch, f))

----------------------------------------------------------------------------
(* Frame processing *)

Event(fn, arg, i) == [fn |-> fn, arg |-> arg, frame |-> i]

\* the two reset calls of a failure branch of process_frame_cch
ResetCalls(i) == <<Event("multiblock_reset", 0, i), Event("segmentation_reset", 0, i)>>

\* multiblock_process (multiblock.c): consumes the decoded frame; what it
\* leaves in df->frame_no is the environment's choice mb
multiblock_process(df, fn, mb) ==
  IF mb = "learn" /\ df.frame_no = FRAME_NO_UNKNOWN
  THEN [df EXCEPT !.frame_no = FRAME_NO_LEARNT]
  ELSE df

NoDf == [data |-> <<>>, err |-> <<>>, errs |-> -1, frame_no |-> FRAME_NO_UNKNOWN]

\* process_frame_cch: the scrambling constant used
cch_scr(ch) == IF ch.scr = PHYS_CH_SCR_DETECT THEN ch.scr_guess ELSE ch.scr

\* process_frame_cch, after a successful decode: multiblock_process(&df,
\* 2*fn1 + fn0) and f->frame_no = df.frame_no
cch_accept(df, block, mb, i) ==
  [ret |-> 0, frame_no |-> multiblock_process(df, block, mb).frame_no, df |-> df,
   calls |-> <<Event("multiblock_process", block, i)>>]

cch_drop(f, df, i) ==
  [ret |-> 0, frame_no |-> f.frame_no, df |-> df, calls |-> ResetCalls(i)]

\* variant of cch_check: the frame type is not checked
cch_check_notype(f, df, mb, i) ==
  IF df.errs # 0 THEN cch_drop(f, df, i)
  ELSE IF ~decoded_frame_check_crc(df, FRAME_TYPE_DATA) THEN cch_drop(f, df, i)
  ELSE cch_accept(df, 2 * df.data[3] + df.data[2], mb, i)

\* process_frame_cch, from the decoded frame on: the three checks
cch_check(f, df, mb, i) ==
  IF df.errs # 0 THEN cch_drop(f, df, i)
  ELSE IF df.data[1] # FRAME_TYPE_DATA THEN cch_drop(f, df, i)
  ELSE IF ~decoded_frame_check_crc(df, FRAME_TYPE_DATA) THEN cch_drop(f, df, i)
  ELSE cch_accept(df, 2 * df.data[3] + df.data[2], mb, i)

\* process_frame_cch: the frame number left in f->frame_no, the decoded frame
\* and the calls made; i is the position of the frame in this process() call
process_frame_cch(ch, f, mb, i) ==
  IF ch.band = TETRAPOL_BAND_VHF
  THEN [ret |-> -1, frame_no |-> f.frame_no, df |-> NoDf, calls |-> <<>>]
  ELSE cch_check(f, [cch_decode_of(f.data, cch_scr(ch)) EXCEPT !.frame_no = f.frame_no],
                 mb, i)

\* process_frame_traffic_ch: not implemented
process_frame_traffic_ch(ch, f) ==
  [ret |-> -1, frame_no |-> f.frame_no, df |-> NoDf, calls |-> <<>>]

\* process_frame, after detect_scr
process_frame_dispatch(ch, f, mb, i) ==
  IF ch.rch_type = TETRAPOL_RCH_CONTROL
  THEN process_frame_cch(ch, f, mb, i)
  ELSE process_frame_traffic_ch(ch, f)

\* process_frame: the channel after detect_scr, and the result of the handler
process_frame_out(ch1, f, mb, i) ==
  [ch |-> ch1, out |-> process_frame_dispatch(ch1, f, mb, i)]

\* variant of process_frame: detect_scr runs on every frame
process_frame_always_detect(ch, f, mb, i) ==
  process_frame_out(detect_scr(ch, f), f, mb, i)

process_frame(ch, f, mb, i) ==
  process_frame_out(IF ch.scr = PHYS_CH_SCR_DETECT THEN detect_scr(ch, f) ELSE ch,
                    f, mb, i)

\* variant of next_frame_no: the number is not reduced modulo 200
next_frame_no_nowrap(frame_no) == frame_no + 1

\* tetrapol_phys_ch_process: phys_ch->frame_no = (frame.frame_no + 1) % 200
next_frame_no(frame_no) == (frame_no + 1) % FRAME_NO_MOD

\* tetrapol_phys_ch_process: the frame number after process_frame
frame_no_after(ch_frame_no, frame_no) ==
  IF frame_no # FRAME_NO_UNKNOWN THEN next_frame_no(frame_no) ELSE ch_frame_no

\* the log entry of one frame: g is the result of get_frame on the channel
\* before, p the result of process_frame, after the channel at the end of the
\* loop body
FrameRecord(before, g, p, run, after) ==
  [ payload |-> g.frame.data,
    sync_err |-> g.sync_err,
    last_sync_err |-> before.last_sync_err,
    total_sync_err |-> g.ch.total_sync_err,
    bad_run |-> run,
    detected |-> before.scr = PHYS_CH_SCR_DETECT,
    scr_before |-> before.scr,
    scr_stat |-> p.ch.scr_stat,
    scr |-> p.ch.scr,
    scr_guess |-> p.ch.scr_guess,
    df |-> p.out.df,
    calls |-> p.out.calls,
    frame_no_in |-> g.frame.frame_no,
    frame_no_out |-> p.out.frame_no,
    ch_frame_no |-> after.frame_no ]

\* the while loop of tetrapol_phys_ch_process; st holds the channel, the log
\* of the frames, the calls so far and the run of failed sync checks
RECURSIVE process_loop(_, _)

process_loop_next(st, mb, g, p, run, after) ==
  process_loop([st EXCEPT !.ch = after,
                          !.frames = Append(@, FrameRecord(st.ch, g, p, run, after)),
                          !.trace = @ \o p.out.calls,
                          !.bad_run = run], mb)

\* the body of the loop: process_frame, then the frame number
process_loop_body(st, mb, g, p, run) ==
  process_loop_next(st, mb, g, p, run,
                    [p.ch EXCEPT !.frame_no = frame_no_after(@, p.out.frame_no)])

\* variant of process_loop_got: the upper layers are reset when get_frame
\* returns -1
process_loop_got_reset(st, mb, g, run) ==
  IF g.r = 0 THEN [st EXCEPT !.r = 0]
  ELSE IF g.r < 0 THEN [st EXCEPT !.r = g.r, !.ch = g.ch, !.bad_run = run,
                                  !.trace = @ \o ResetCalls(Len(st.frames) + 1)]
  ELSE process_loop_body(st, mb, g,
                         process_frame(g.ch, g.frame, mb, Len(st.frames) + 1), run)

\* the loop of tetrapol_phys_ch_process after get_frame
process_loop_got(st, mb, g, run) ==
  IF g.r = 0 THEN [st EXCEPT !.r = 0]
  ELSE IF g.r < 0 THEN [st EXCEPT !.r = g.r, !.ch = g.ch, !.bad_run = run]
  ELSE process_loop_body(st, mb, g,
                         process_frame(g.ch, g.frame, mb, Len(st.frames) + 1), run)

process_loop_run(st, mb, g) ==
  process_loop_got(st, mb, g, IF g.failed THEN st.bad_run + 1 ELSE 0)

process_loop(st, mb) == process_loop_run(st, mb, get_frame(st.ch))

NoAcq == [tried |-> FALSE, found |-> FALSE, offs |-> 0, ch |-> <<>>]

\* variant of process_end: has_frame_sync is left set when get_frame returned -1
process_end_keep_sync(st, acq1) ==
  [ch |-> st.ch,
   acq |-> acq1,
   frames |-> st.frames,
   trace |-> st.trace,
   r |-> st.r,
   bad_run |-> st.bad_run,
   ret |-> 0]

\* tetrapol_phys_ch_process, the end: has_frame_sync = false when get_frame
\* returned -1
process_end(st, acq1) ==
  [ch |-> IF st.r < 0 THEN [st.ch EXCEPT !.has_frame_sync = FALSE] ELSE st.ch,
   acq |-> acq1,
   frames |-> st.frames,
   trace |-> st.trace,
   r |-> st.r,
   bad_run |-> st.bad_run,
   ret |-> 0]

\* tetrapol_phys_ch_process, without frame sync: find_frame_sync, and on
\* success the resets of the upper layers, then the loop
process_acquire(ch, mb, fs) ==
  IF fs.ret = 0
  THEN process_end([ch |-> [fs.ch EXCEPT !.has_frame_sync = FALSE],
                    frames |-> <<>>, trace |-> <<>>, r |-> 0, bad_run |-> 0],
                   [tried |-> TRUE, found |-> FALSE, offs |-> fs.offs,
                    ch |-> [fs.ch EXCEPT !.data = <<>>, !.scr_stat = <<>>]])
  ELSE process_end(
         process_loop([ch |-> [fs.ch EXCEPT !.has_frame_sync = TRUE,
                                            !.frame_no = FRAME_NO_UNKNOWN],
                       frames |-> <<>>, trace |-> ResetCalls(0), r |-> 1,
                       bad_run |-> 0], mb),
         [tried |-> TRUE, found |-> TRUE, offs |-> fs.offs,
          ch |-> [fs.ch EXCEPT !.has_frame_sync = TRUE,
                               !.frame_no = FRAME_NO_UNKNOWN,
                               !.data = <<>>, !.scr_stat = <<>>]])

tetrapol_phys_ch_process(ch, mb, run) ==
  IF ~ch.has_frame_sync
  THEN process_acquire(ch, mb, find_frame_sync(ch))
  ELSE process_end(process_loop([ch |-> ch, frames |-> <<>>, trace |-> <<>>,
                                 r |-> 1, bad_run |-> run], mb),
                   NoAcq)

----------------------------------------------------------------------------
(* The state machine: a created channel and the calls of its API *)

\* the channel is created for the UHF band as a control channel, the one
\* combination for which process_frame is implemented
Created ==
  /\ phys_ch = tetrapol_phys_ch_create(TETRAPOL_BAND_UHF, TETRAPOL_RCH_CONTROL)
  /\ call = [name |-> "create"]
  /\ acq = NoAcq
  /\ frames = <<>>
  /\ trace = <<>>
  /\ bad_run = 0
  /\ n_calls = 0

Init == Created /\ upper \in MbOracles

RecvChunk(c, len) ==
  /\ \E res \in {tetrapol_recv2(phys_ch, Chunks[c], len)} :
       /\ phys_ch' = res.ch
       /\ call' = [name |-> "recv", buf |-> c, len |-> len, ret |-> res.ret]
  /\ n_calls' = n_calls + 1
  /\ acq' = NoAcq /\ frames' = <<>> /\ trace' = <<>>
  /\ UNCHANGED <<bad_run, upper>>

Recv ==
  /\ n_calls < MaxCalls
  /\ \E c \in 1..Len(Chunks) : \E len \in RecvLens(Chunks[c]) : RecvChunk(c, len)

Process ==
  /\ \E res \in {tetrapol_phys_ch_process(phys_ch, upper, bad_run)} :
       /\ phys_ch' = res.ch
       /\ acq' = res.acq
       /\ frames' = res.frames
       /\ trace' = res.trace
       /\ bad_run' = res.bad_run
       /\ call' = [name |-> "process", sync |-> phys_ch.has_frame_sync,
                   len |-> phys_ch.data_len, r |-> res.r, ret |-> res.ret]
  /\ UNCHANGED <<n_calls, upper>>

SetScr ==
  /\ n_calls < MaxCalls
  /\ \E scr \in ScrInputs :
       /\ phys_ch' = tetrapol_phys_ch_set_scr(phys_ch, scr)
       /\ call' = [name |-> "set_scr", scr |-> scr]
  /\ n_calls' = n_calls + 1
  /\ acq' = NoAcq /\ frames' = <<>> /\ trace' = <<>>
  /\ UNCHANGED <<bad_run, upper>>

SetScrConfidence ==
  /\ n_calls < MaxCalls
  /\ \E c \in ConfidenceInputs :
       /\ phys_ch' = tetrapol_phys_ch_set_scr_confidence(phys_ch, c)
       /\ call' = [name |-> "set_scr_confidence", scr_confidence |-> c]
  /\ n_calls' = n_calls + 1
  /\ acq' = NoAcq /\ frames' = <<>> /\ trace' = <<>>
  /\ UNCHANGED <<bad_run, upper>>

Next == Recv \/ Process \/ SetScr \/ SetScrConfidence

Spec == Init /\ [][Next]_vars

----------------------------------------------------------------------------
(* Detection of the scrambling constant from a stream of valid frames:     *)
(* the channel is fed pairs of clean frames scrambled with KA, as long as  *)
(* the buffer takes them whole.                                            *)

\* pairs of frames fed in one behaviour
MaxFeeds == 100

RecvValid ==
  /\ n_calls < MaxFeeds
  /\ phys_ch.data_len + Len(ChunkA) <= DATA_SIZE
  /\ RecvChunk(1, Len(ChunkA))

InitDetect == Created /\ upper = "keep"

NextDetect == RecvValid \/ Process

SpecDetect == InitDetect /\ [][NextDetect]_vars

\* frames processed so far under SpecDetect: all that was fed and has left
\* the buffer
FramesDone == 2 * n_calls - phys_ch.data_len \div FRAME_LEN

----------------------------------------------------------------------------
(* The two bit-level functions on their own: differential_dec on every bit *)
(* sequence of up to MaxBits bits, frame_descramble on the payloads of the *)
(* input frames and the all-zero payload with every scrambling constant.   *)

\* length of the bit sequences differential_dec is applied to
MaxBits == 6

BitSeqs == UNION {[1..m -> {0, 1}] : m \in 0..MaxBits}

PurePayloads ==
  {KnownPayloads[i] : i \in 1..Len(KnownPayloads)} \cup
    {[k \in 1..FRAME_DATA_LEN |-> 0] \o <<>>}

\* the arguments of one call: a bit sequence, or a payload and a constant
PureInputs ==
  {[name |-> "bits", data |-> x] : x \in BitSeqs} \cup
    {[name |-> "frame", data |-> d, scr |-> k] :
       d \in PurePayloads, k \in 0..(SCR_STAT_LEN - 1)}

InitPure ==
  /\ phys_ch = tetrapol_phys_ch_create(TETRAPOL_BAND_UHF, TETRAPOL_RCH_CONTROL)
  /\ call \in PureInputs
  /\ acq = NoAcq
  /\ frames = <<>>
  /\ trace = <<>>
  /\ bad_run = 0
  /\ n_calls = 0
  /\ upper = "keep"

\* differential_dec(data, size, 0): the bits left in data and the bit returned
ApplyDifferentialDec ==
  /\ call.name = "bits"
  /\ \E out \in {differential_dec(call.data, Len(call.data), 0)} :
       call' = [name |-> "differential_dec", in |-> call.data, out |-> out,
                ret |-> IF out = <<>> THEN 0 ELSE out[Len(out)]]
  /\ UNCHANGED <<phys_ch, acq, frames, trace, bad_run, n_calls, upper>>

\* frame_descramble(f, scr), and frame_descramble(f, scr) on its result
ApplyDescramble ==
  /\ call.name = "frame"
  /\ \E out \in {frame_descramble(call.data, call.scr)} :
       call' = [name |-> "frame_descramble", in |-> call.data, scr |-> call.scr,
                out |-> out, out2 |-> frame_descramble(out, call.scr)]
  /\ UNCHANGED <<phys_ch, acq, frames, trace, bad_run, n_calls, upper>>

NextPure == ApplyDifferentialDec \/ ApplyDescramble

SpecPure == InitPure /\ [][NextPure]_vars

----------------------------------------------------------------------------
(* Properties *)

Keys == 0..(SCR_STAT_LEN - 1)

\* the frame of the log was handed to multiblock_process
Accepted(i) ==
  frames[i].calls =
    <<Event("multiblock_process", 2 * frames[i].df.data[3] + frames[i].df.data[2], i)>>

\* the frame of the log was dropped with the two reset calls
Dropped(i) == frames[i].calls = ResetCalls(i)

\* C1, as claimed: a process() call entered with frame sync emits at least one
\* frame or returns without frame sync, whatever the buffer length.
C1_SyncMonotonicity ==
  (call.name = "process" /\ call.sync) =>
    (Len(frames) >= 1 \/ ~phys_ch.has_frame_sync)

\* C1, amended: a process() call entered with frame sync and at least
\* FRAME_LEN buffered bits emits at least one frame or returns without frame
\* sync; entered with fewer bits it emits nothing, keeps the sync and the
\* buffer.
C1_SyncMonotonicityFromFrameLen ==
  (call.name = "process" /\ call.sync) =>
    IF call.len >= FRAME_LEN
    THEN Len(frames) >= 1 \/ ~phys_ch.has_frame_sync
    ELSE frames = <<>> /\ phys_ch.has_frame_sync /\ phys_ch.data_len = call.len

C1_Witness ==
  /\ call.name = "process" /\ call.sync /\ call.len >= FRAME_LEN
  /\ Len(frames) >= 1
  /\ phys_ch.has_frame_sync

\* C2, as claimed: every frame handed to multiblock_process sets the frame
\* number of the channel to (decoded frame_no + 1) mod 200, and of two such
\* frames in a row the second leaves the number of the first plus 1 mod 200,
\* also from FRAME_NO_UNKNOWN.
C2_FrameNoAdvance ==
  \A i \in DOMAIN frames :
    Accepted(i) =>
      /\ frames[i].ch_frame_no = (frames[i].frame_no_out + 1) % FRAME_NO_MOD
      /\ (i > 1 /\ Accepted(i - 1)) =>
           frames[i].ch_frame_no = (frames[i - 1].ch_frame_no + 1) % FRAME_NO_MOD

\* C2, amended: a frame handed to multiblock_process sets the frame number of
\* the channel to (decoded frame_no + 1) mod 200 when the decoded frame_no is
\* not FRAME_NO_UNKNOWN, and leaves it as it was otherwise; of two such frames
\* in a row the second leaves the number of the first plus 1 mod 200 when the
\* number of the first is known.
C2_FrameNoAdvanceWhenKnown ==
  /\ \A i \in DOMAIN frames :
       Accepted(i) =>
         /\ frames[i].ch_frame_no =
              IF frames[i].frame_no_out # FRAME_NO_UNKNOWN
              THEN (frames[i].frame_no_out + 1) % FRAME_NO_MOD
              ELSE frames[i].frame_no_in
         /\ frames[i].ch_frame_no \in 0..(FRAME_NO_MOD - 1) \cup {FRAME_NO_UNKNOWN}
         /\ (i > 1 /\ Accepted(i - 1) /\ frames[i - 1].ch_frame_no # FRAME_NO_UNKNOWN) =>
              frames[i].ch_frame_no = (frames[i - 1].ch_frame_no + 1) % FRAME_NO_MOD
  /\ frames # <<>> => phys_ch.frame_no = frames[Len(frames)].ch_frame_no

C2_Witness ==
  \E i \in DOMAIN frames :
    /\ i > 1 /\ Accepted(i - 1) /\ Accepted(i)
    /\ frames[i - 1].ch_frame_no = FRAME_NO_MOD - 1
    /\ frames[i].ch_frame_no = 0

\* C3: in every reachable state 0 <= data_len <= 10 * FRAME_LEN, and data_len
\* is the number of buffered bits.
C3_BoundedBuffer ==
  /\ 0 <= phys_ch.data_len
  /\ phys_ch.data_len <= 10 * FRAME_LEN
  /\ Len(phys_ch.data) = phys_ch.data_len

C3_Witness ==
  /\ call.name = "recv"
  /\ call.ret < call.len
  /\ call.ret > 0
  /\ phys_ch.data_len = 10 * FRAME_LEN

\* C4: tetrapol_recv2(buf, len) returns min(len, 1600 - data_len), appends
\* that many leading bits of buf after the buffered bits and changes no other
\* field of the channel; 10 * FRAME_LEN + 100 bits on an empty buffer return
\* 10 * FRAME_LEN.
C4_RecvTruncation ==
  [][call'.name = "recv" =>
       /\ call'.ret = Min2(call'.len, 10 * FRAME_LEN - phys_ch.data_len)
       /\ phys_ch'.data = phys_ch.data \o SubSeq(Chunks[call'.buf], 1, call'.ret)
       /\ phys_ch'.data_len = phys_ch.data_len + call'.ret
       /\ [phys_ch' EXCEPT !.data = <<>>, !.data_len = 0] =
            [phys_ch EXCEPT !.data = <<>>, !.data_len = 0]
       /\ (phys_ch.data_len = 0 /\ call'.len = 10 * FRAME_LEN + 100) =>
            call'.ret = 10 * FRAME_LEN]_vars

C4_Witness ==
  /\ call.name = "recv"
  /\ call.len = 10 * FRAME_LEN + 100
  /\ call.ret = 10 * FRAME_LEN
  /\ phys_ch.data = SubSeq(ChunkBig, 1, 10 * FRAME_LEN)

\* the frame of the log took the failure branch of the sync check of get_frame
SyncFailed(i) == frames[i].sync_err + frames[i].last_sync_err > MAX_FRAME_SYNC_ERR

\* C5: from total_sync_err = 0 a run of frames with sync_err + last_sync_err >
\* MAX_FRAME_SYNC_ERR takes total_sync_err through 1, 3, 7, 15, 31, 63, 127,
\* 255; frame sync is lost at the 8th frame of the run and never before.
C5_SyncLossThreshold ==
  /\ \A i \in DOMAIN frames :
       /\ frames[i].bad_run > 0 <=> SyncFailed(i)
       /\ frames[i].bad_run < 8
       /\ frames[i].total_sync_err = 2 ^ frames[i].bad_run - 1
       /\ i > 1 => frames[i].bad_run \in {0, frames[i - 1].bad_run + 1}
  /\ phys_ch.has_frame_sync =>
       /\ bad_run < 8
       /\ phys_ch.total_sync_err = 2 ^ bad_run - 1
  /\ call.name = "process" =>
       /\ call.r = -1 <=> ((call.sync \/ acq.found) /\ ~phys_ch.has_frame_sync)
       /\ call.r = -1 => bad_run = 8 /\ phys_ch.total_sync_err = 255

C5_Witness ==
  /\ call.name = "process" /\ call.r = -1
  /\ ~phys_ch.has_frame_sync
  /\ Len(frames) >= 7
  /\ \A k \in 1..7 : frames[Len(frames) - 7 + k].total_sync_err = 2 ^ k - 1
  /\ \A k \in 1..7 : frames[Len(frames) - 7 + k].sync_err = 2

\* the offsets find_frame_sync may accept in the buffer d of length n
SyncOffsets(d, n) ==
  {o \in 0..(n - 1) :
     /\ o + FRAME_LEN + FRAME_HDR_LEN < n
     /\ cmp_frame_sync(d, o) + cmp_frame_sync(d, o + FRAME_LEN) <= 1}

\* the calls of the log that were made before the first frame
CallsBeforeFrames == SelectSeq(trace, LAMBDA e : e.frame = 0)

\* the outcome claimed for a process() call entered without frame sync, the
\* offsets it may accept being hits
AcquisitionAt(hits) ==
  /\ acq'.tried
  /\ acq'.found <=> hits # {}
  /\ acq'.found =>
       /\ \A o \in hits : acq'.offs <= o
       /\ acq'.offs \in hits
       /\ acq'.ch.data_len = phys_ch.data_len - acq'.offs
       /\ phys_ch'.data =
            SubSeq(phys_ch.data, acq'.offs + FRAME_LEN * Len(frames') + 1,
                   phys_ch.data_len)
       /\ acq'.ch.has_frame_sync
       /\ acq'.ch.last_sync_err = 0
       /\ acq'.ch.total_sync_err = 0
       /\ acq'.ch.frame_no = FRAME_NO_UNKNOWN
       /\ CallsBeforeFrames' =
            <<Event("multiblock_reset", 0, 0), Event("segmentation_reset", 0, 0)>>
  /\ ~acq'.found =>
       /\ ~phys_ch'.has_frame_sync
       /\ frames' = <<>>
       /\ trace' = <<>>

\* C6: without frame sync process() accepts the smallest offset o with
\* o + FRAME_LEN + FRAME_HDR_LEN < data_len and cmp(o) + cmp(o + FRAME_LEN) <= 1;
\* it then discards the first o bits, sets has_frame_sync, zeroes last_sync_err
\* and total_sync_err, sets frame_no to UNKNOWN and calls multiblock_reset and
\* segmentation_reset once each.
C6_Acquisition ==
  [][(call'.name = "process" /\ ~phys_ch.has_frame_sync) =>
       AcquisitionAt(SyncOffsets(phys_ch.data, phys_ch.data_len))]_vars

\* the buffer held ChunkE alone: offset 0 has 2 sync errors, offset FRAME_LEN 1
C6_Witness ==
  /\ call.name = "process" /\ ~call.sync /\ call.len = Len(ChunkE)
  /\ acq.found /\ acq.offs = FRAME_LEN
  /\ pair_sync_err(ChunkE, 0) = 2
  /\ pair_sync_err(ChunkE, FRAME_LEN) = 1
  /\ phys_ch.has_frame_sync

\* the decoded frame of the log passes the three checks of the control channel
DecodedOk(i) ==
  /\ frames[i].df.errs = 0
  /\ frames[i].df.data[1] = FRAME_TYPE_DATA
  /\ decoded_frame_check_crc(frames[i].df, FRAME_TYPE_DATA)

\* C7: on the UHF control channel every frame is either accepted, exactly when
\* it decodes without error, is a data frame and passes the CRC, with one call
\* of multiblock_process with the block index 2*data[2] + data[1] in 0..3 and
\* no reset, or dropped with one multiblock_reset and one segmentation_reset
\* and no multiblock_process; a dropped frame does not keep a later valid frame
\* from being accepted.
C7_FrameOutcome ==
  \A i \in DOMAIN frames :
    /\ SelectSeq(trace, LAMBDA e : e.frame = i) = frames[i].calls
    /\ IF DecodedOk(i)
       THEN /\ Accepted(i)
            /\ frames[i].calls[1].arg \in 0..3
       ELSE Dropped(i)

C7_Witness ==
  \E i, j, k, l \in DOMAIN frames :
    /\ i < l /\ j < l /\ k < l
    /\ Dropped(i) /\ frames[i].df.errs # 0
    /\ Dropped(j) /\ frames[j].df.errs = 0 /\ frames[j].df.data[1] # FRAME_TYPE_DATA
    /\ Dropped(k) /\ frames[k].df.errs = 0 /\ frames[k].df.data[1] = FRAME_TYPE_DATA
    /\ Accepted(l) /\ DecodedOk(l)

\* detect_scr set scr while it handled the frame of the log
Committed(i) == frames[i].detected /\ frames[i].scr # PHYS_CH_SCR_DETECT

\* C8: whenever detect_scr commits scr <- b, scr_stat[b] - scr_confidence >
\* scr_stat[k] for every other key k; it commits nothing when the highest score
\* is not more than scr_confidence above the second highest.
C8_ConfidenceGap ==
  \A i \in DOMAIN frames :
    Committed(i) =>
      \A k \in Keys \ {frames[i].scr} :
        frames[i].scr_stat[frames[i].scr] - phys_ch.scr_confidence >
          frames[i].scr_stat[k]

\* C9, as claimed: with one key passing every frame and every other key failing
\* every frame, the score of the key is the number of frames processed, up to
\* 200 frames, every other score is 0, and scr is the key by frame 200.
C9_DetectConvergence ==
  /\ phys_ch.scr_stat[KA] = FramesDone
  /\ \A k \in Keys \ {KA} : phys_ch.scr_stat[k] = 0
  /\ FramesDone >= 200 => phys_ch.scr = KA

\* C9, amended: the score of the key grows by 1 with each frame until scr
\* commits to the key, at frame scr_confidence + 1 = 51, and stays at 51 from
\* then on; every other score stays 0.
C9_DetectConvergenceUntilCommit ==
  /\ phys_ch.scr_stat[KA] = Min2(FramesDone, DEFAULT_SCR_CONFIDENCE + 1)
  /\ \A i \in DOMAIN frames :
       frames[i].scr_stat[KA] =
         Min2(FramesDone - Len(frames) + i, DEFAULT_SCR_CONFIDENCE + 1)
  /\ \A k \in Keys \ {KA} : phys_ch.scr_stat[k] = 0
  /\ phys_ch.scr =
       IF FramesDone > DEFAULT_SCR_CONFIDENCE THEN KA ELSE PHYS_CH_SCR_DETECT
  /\ \A i \in DOMAIN frames :
       Committed(i) <=> FramesDone - Len(frames) + i = DEFAULT_SCR_CONFIDENCE + 1

C9_Witness ==
  /\ FramesDone = 200
  /\ phys_ch.scr = KA
  /\ phys_ch.scr_stat[KA] = DEFAULT_SCR_CONFIDENCE + 1

\* the scores a detector run leaves, from the scores before and the outcome
\* of the trial of each key, passed[k + 1] for key k
ScoresFrom(before, passed) ==
  [k \in Keys |->
     IF passed[k + 1]
     THEN before[k] + 1
     ELSE IF before[k] - 2 > 0 THEN before[k] - 2 ELSE 0]

\* the scores a detector run leaves, from the scores before and the payload
ScoresAfter(before, payload) ==
  ScoresFrom(before, scr_trials_of(payload, TETRAPOL_BAND_UHF))

\* C10: every score is at least 0 in every state; a detector run takes the
\* score of a key that fails decode or CRC to max(0, score - 2) and of a key
\* that passes to score + 1; set_scr sets every score to 0.
C10_ScoreNonNegative ==
  [][/\ \A k \in Keys : phys_ch.scr_stat[k] >= 0 /\ phys_ch'.scr_stat[k] >= 0
     /\ call'.name = "process" =>
          \A i \in DOMAIN frames' :
            /\ \A k \in Keys : frames'[i].scr_stat[k] >= 0
            /\ frames'[i].scr_stat =
                 IF frames'[i].detected
                 THEN ScoresAfter(IF i = 1 THEN phys_ch.scr_stat
                                  ELSE frames'[i - 1].scr_stat,
                                  frames'[i].payload)
                 ELSE IF i = 1 THEN phys_ch.scr_stat ELSE frames'[i - 1].scr_stat
     /\ call'.name = "set_scr" =>
          /\ \A k \in Keys : phys_ch'.scr_stat[k] = 0
          /\ phys_ch'.scr = call'.scr]_vars

C10_Witness ==
  \E i \in DOMAIN frames : \E k \in Keys :
    /\ i > 1
    /\ frames[i].detected
    /\ frames[i - 1].scr_stat[k] = 1
    /\ frames[i].scr_stat[k] = 0

\* the prefix XOR of x: bit i is x[1] XOR ... XOR x[i]
PrefixXor(x) == [i \in 1..Len(x) |-> SeqSumRange(x, 1, i) % 2] \o <<>>

\* the XOR of each bit of x with the bit before it, the first with 0
AdjacentXor(x) ==
  [i \in 1..Len(x) |-> XOR(x[i], IF i = 1 THEN 0 ELSE x[i - 1])] \o <<>>

\* C11, as claimed: differential_dec with seed 0 applied to the prefix XOR of
\* a bit sequence x gives x.
C11_DiffDecRoundTrip ==
  call.name = "differential_dec" =>
    \A x \in BitSeqs : PrefixXor(x) = call.in => call.out = x

\* C11, amended: differential_dec with seed 0 is itself the prefix XOR; applied
\* to the sequence of the XORs of each bit of x with the bit before it (the
\* first with 0) it gives x, and it returns the last bit it wrote.
C11_DiffDecInvertsAdjacentXor ==
  call.name = "differential_dec" =>
    /\ \A x \in BitSeqs : AdjacentXor(x) = call.in => call.out = x
    /\ call.out = PrefixXor(call.in)
    /\ call.ret = IF call.in = <<>> THEN 0 ELSE call.out[Len(call.out)]

C11_Witness ==
  /\ call.name = "differential_dec"
  /\ call.in = <<1, 1, 1>>
  /\ call.out = <<1, 0, 1>>
  /\ AdjacentXor(call.out) = call.in
  /\ PrefixXor(call.out) # call.in

\* C12: frame_descramble(., k) applied twice to a 152-bit payload gives the
\* payload back, for every k in 0..127; for k = 0 one application already
\* leaves the payload as it is.
C12_DescrambleInvolution ==
  call.name = "frame_descramble" =>
    /\ Len(call.in) = FRAME_DATA_LEN
    /\ call.out2 = call.in
    /\ call.scr = 0 => call.out = call.in

C12_Witness ==
  /\ call.name = "frame_descramble"
  /\ call.scr = KA
  /\ call.in = KnownPayloads[1]
  /\ call.out # call.in
  /\ call.out2 = call.in

\* the bits the acquisition of the last process() call discarded
AcqOffs == IF acq.tried THEN acq.offs ELSE 0

\* the frames get_frame examined in the last process() call: those it
\* produced, and the one it declared the loss of sync on
Examined == Len(frames) + (IF call.r = -1 THEN 1 ELSE 0)

\* the step is a process() call that tracks frames: it is entered with frame
\* sync or acquires it
Tracking == call'.name = "process" /\ (phys_ch.has_frame_sync \/ acq'.found)

\* C13, as claimed: every frame get_frame examines while tracking, the one the
\* loss of sync is declared on included, sets last_sync_err to its sync_err and
\* takes FRAME_LEN bits from the buffer.
C13_TrackingBookkeeping ==
  [][(Tracking /\ Examined' >= 1) =>
       /\ phys_ch'.data_len =
            phys_ch.data_len - AcqOffs' - FRAME_LEN * Examined'
       /\ phys_ch'.last_sync_err =
            cmp_frame_sync(phys_ch.data, AcqOffs' + FRAME_LEN * (Examined' - 1))]_vars

\* C13, amended: every frame get_frame produces while tracking, whether or not
\* it takes the failure branch, sets last_sync_err to its sync_err and takes
\* FRAME_LEN bits from the buffer; the frame the loss of sync is declared on
\* stays at the head of the buffer and leaves last_sync_err as it was.
C13_BookkeepingOfProducedFrames ==
  [][Tracking =>
       /\ phys_ch'.data_len =
            phys_ch.data_len - AcqOffs' - FRAME_LEN * Len(frames')
       /\ \A i \in DOMAIN frames' :
            frames'[i].sync_err =
              cmp_frame_sync(phys_ch.data, AcqOffs' + FRAME_LEN * (i - 1))
       /\ phys_ch'.last_sync_err =
            IF frames' # <<>> THEN frames'[Len(frames')].sync_err
            ELSE IF acq'.found THEN 0 ELSE phys_ch.last_sync_err
       /\ call'.r = -1 =>
            /\ phys_ch'.data_len >= FRAME_LEN
            /\ phys_ch'.data =
                 SubSeq(phys_ch.data, AcqOffs' + FRAME_LEN * Len(frames') + 1,
                        phys_ch.data_len)
            /\ cmp_frame_sync(phys_ch'.data, 0) + phys_ch'.last_sync_err >
                 MAX_FRAME_SYNC_ERR]_vars

\* sync was lost on a clean frame that followed a frame with sync errors
C13_Witness ==
  /\ call.name = "process" /\ call.r = -1
  /\ phys_ch.data_len >= FRAME_LEN
  /\ cmp_frame_sync(phys_ch.data, 0) = 0
  /\ phys_ch.last_sync_err = 2

\* the highest score and the keys that hold it
TopScore(stat) ==
  CHOOSE m \in {stat[k] : k \in Keys} : \A k \in Keys : stat[k] <= m

KeysWithScore(stat, m) == {k \in Keys : stat[k] = m}

TopKeys(stat) == KeysWithScore(stat, TopScore(stat))

SetMax(S) == CHOOSE x \in S : \A y \in S : y <= x

\* the highest of a set of keys, unless they are below 2, and then the lowest
HighestOrFirst(tops) ==
  IF \E k \in tops : k >= 2 THEN SetMax(tops) ELSE SetMin(tops)

\* C14, as claimed: after each detector run scr_guess, and the key committed
\* to scr if any, is the lowest-indexed of the keys that share the highest
\* score.
C14_TieLowestIndex ==
  \A i \in DOMAIN frames :
    frames[i].detected =>
      /\ frames[i].scr_guess = SetMin(TopKeys(frames[i].scr_stat))
      /\ Committed(i) => frames[i].scr = SetMin(TopKeys(frames[i].scr_stat))

\* C14, amended: after each detector run scr_guess, and the key committed to
\* scr if any, is the highest-indexed of the keys that share the highest score,
\* unless these are keys 0 and 1 only, and then it is key 0.
C14_TieHighestIndex ==
  \A i \in DOMAIN frames :
    frames[i].detected =>
      /\ frames[i].scr_guess = HighestOrFirst(TopKeys(frames[i].scr_stat))
      /\ Committed(i) => frames[i].scr = frames[i].scr_guess

\* a detector run that ends with all the scores equal
C14_Witness ==
  \E i \in DOMAIN frames :
    /\ frames[i].detected
    /\ TopKeys(frames[i].scr_stat) = Keys
    /\ frames[i].scr_guess = SCR_STAT_LEN - 1

\* no offset o of the buffer d of length n, o + 168 < n, has a pair of sync
\* words with at most MAX_FRAME_SYNC_ERR errors
NoSyncOffset(d, n) ==
  \A o \in 0..(n - FRAME_LEN - FRAME_HDR_LEN - 1) :
    cmp_frame_sync(d, o) + cmp_frame_sync(d, o + FRAME_LEN) > MAX_FRAME_SYNC_ERR

\* C15: a process() call entered without frame sync, with no offset o,
\* o + 168 < data_len, whose pair of sync words matches, leaves the last
\* FRAME_LEN + FRAME_HDR_LEN bits of the buffer (the whole buffer when it holds
\* no more), stays without frame sync, calls none of multiblock_reset,
\* segmentation_reset and multiblock_process, and leaves frame_no, scr and
\* scr_stat (and every other field) as they were.
C15_FailedAcquisition ==
  [][(/\ call'.name = "process"
      /\ ~phys_ch.has_frame_sync
      /\ NoSyncOffset(phys_ch.data, phys_ch.data_len)) =>
       /\ phys_ch'.data_len = Min2(phys_ch.data_len, FRAME_LEN + FRAME_HDR_LEN)
       /\ phys_ch'.data =
            SubSeq(phys_ch.data, phys_ch.data_len - phys_ch'.data_len + 1,
                   phys_ch.data_len)
       /\ ~phys_ch'.has_frame_sync
       /\ trace' = <<>>
       /\ frames' = <<>>
       /\ phys_ch'.frame_no = phys_ch.frame_no
       /\ phys_ch'.scr = phys_ch.scr
       /\ phys_ch'.scr_stat = phys_ch.scr_stat
       /\ phys_ch' = [phys_ch EXCEPT !.data_len = phys_ch'.data_len,
                                     !.data = phys_ch'.data]]_vars

\* a full buffer in which no offset matched: 168 bits are left of it
C15_Witness ==
  /\ call.name = "process" /\ ~call.sync /\ call.len = DATA_SIZE
  /\ acq.tried /\ ~acq.found
  /\ acq.offs = DATA_SIZE - FRAME_LEN - FRAME_HDR_LEN
  /\ phys_ch.data_len = FRAME_LEN + FRAME_HDR_LEN
  /\ ~phys_ch.has_frame_sync

\* the calls process_frame made for the first n frames of the log, in order
RECURSIVE FrameCalls(_, _)
FrameCalls(fs, n) ==
  IF n = 0 THEN <<>> ELSE FrameCalls(fs, n - 1) \o fs[n].calls

\* C16: a process() call that acquires frame sync calls multiblock_reset and
\* segmentation_reset once each, before any call process_frame makes for a
\* frame; every other call of the log is one process_frame made for a frame, so
\* that losing frame sync makes no call, and a process() call entered with
\* frame sync makes no call before its first frame.
C16_ResetPerEpoch ==
  call.name = "process" =>
    /\ acq.tried <=> ~call.sync
    /\ phys_ch.has_frame_sync <=> ((call.sync \/ acq.found) /\ call.r # -1)
    /\ CallsBeforeFrames = IF acq.found THEN ResetCalls(0) ELSE <<>>
    /\ trace = CallsBeforeFrames \o FrameCalls(frames, Len(frames))
    /\ \A i \in DOMAIN frames :
         \A j \in DOMAIN frames[i].calls : frames[i].calls[j].frame = i

\* frame sync was acquired and lost in one process() call, with frames between
C16_Witness ==
  /\ call.name = "process" /\ ~call.sync /\ call.r = -1
  /\ acq.found
  /\ ~phys_ch.has_frame_sync
  /\ Len(frames) >= 1
  /\ Len(trace) > 2
  /\ SubSeq(trace, 1, 2) = ResetCalls(0)

\* the detector state of a channel or of a log entry
ScrState(r) == <<r.scr, r.scr_guess, r.scr_stat>>

\* the detector state the i-th frame of the next log was processed from
ScrStateBefore(i) ==
  IF i = 1 THEN ScrState(phys_ch) ELSE ScrState(frames'[i - 1])

\* C17: once scr holds a key, recv and process calls leave scr, scr_guess and
\* scr_stat as they are; a frame processed while scr holds a key, also one that
\* follows the committing frame in the same process() call, leaves them as they
\* are; and scr changes from a key by set_scr only, which sets every score to 0.
C17_DetectionLeftForGood ==
  [][/\ (phys_ch.scr # PHYS_CH_SCR_DETECT /\ call'.name \in {"recv", "process"}) =>
          ScrState(phys_ch') = ScrState(phys_ch)
     /\ call'.name = "process" =>
          \A i \in DOMAIN frames' :
            frames'[i].scr_before # PHYS_CH_SCR_DETECT =>
              /\ frames'[i].scr_before = ScrStateBefore(i)[1]
              /\ ScrState(frames'[i]) = ScrStateBefore(i)
     /\ (phys_ch.scr # PHYS_CH_SCR_DETECT /\ phys_ch'.scr # phys_ch.scr) =>
          call'.name = "set_scr"
     /\ call'.name = "set_scr" =>
          /\ phys_ch'.scr = call'.scr
          /\ \A k \in Keys : phys_ch'.scr_stat[k] = 0]_vars

\* the detector committed KA with a score of 2 in an earlier process() call;
\* this call processed a frame that only KB decodes, and the scores stand
C17_Witness ==
  /\ call.name = "process"
  /\ frames # <<>>
  /\ frames[1].scr_before = KA
  /\ scr_trials_of(frames[1].payload, TETRAPOL_BAND_UHF)[KB + 1]
  /\ ~scr_trials_of(frames[1].payload, TETRAPOL_BAND_UHF)[KA + 1]
  /\ phys_ch.scr = KA
  /\ phys_ch.scr_stat[KA] = 2
  /\ phys_ch.scr_stat[KB] = 0

\* where the window of the i-th frame of the next log starts in the buffer
\* the process() call was entered with (0-based)
WindowStart(i) == AcqOffs' + FRAME_LEN * (i - 1)

\* C18, step by step: recv appends the bits it accepts to the end of the
\* buffer, in order; the set calls leave the buffer; process() leaves a suffix
\* of the buffer, the one after the bits the acquisition dropped and the
\* windows of the frames it produced; the windows are FRAME_LEN bits each, one
\* right after the other, and the payload of each frame is the running XOR
\* (seed 0) of the 152 bits that follow the 8 header bits of its window. So the
\* buffer is at all times the end of the accepted stream, and the frames cover
\* disjoint windows of it at increasing positions.
C18_ArrivalOrder ==
  [][/\ phys_ch.data_len = Len(phys_ch.data)
     /\ call'.name = "recv" =>
          /\ call'.ret \in 0..call'.len
          /\ phys_ch'.data = phys_ch.data \o SubSeq(Chunks[call'.buf], 1, call'.ret)
     /\ call'.name \in {"set_scr", "set_scr_confidence"} =>
          phys_ch'.data = phys_ch.data
     /\ call'.name = "process" =>
          /\ WindowStart(Len(frames') + 1) <= phys_ch.data_len
          /\ phys_ch'.data =
               SubSeq(phys_ch.data, WindowStart(Len(frames') + 1) + 1,
                      phys_ch.data_len)
          /\ \A i \in DOMAIN frames' :
               /\ Len(frames'[i].payload) = FRAME_DATA_LEN
               /\ AdjacentXor(frames'[i].payload) =
                    SubSeq(phys_ch.data, WindowStart(i) + FRAME_HDR_LEN + 1,
                           WindowStart(i) + FRAME_LEN)]_vars

\* frames were produced from windows that start FRAME_LEN bits into the buffer
C18_Witness ==
  /\ call.name = "process" /\ ~call.sync
  /\ acq.found /\ acq.offs = FRAME_LEN
  /\ Len(frames) >= 2
  /\ frames[1].payload = get_frame_payload(RawA)
  /\ AdjacentXor(frames[2].payload) = RawA
  /\ phys_ch.data_len = call.len - FRAME_LEN * (1 + Len(frames))

\* C19: a frame examined with frame sync whose sync_err + last_sync_err is at
\* most MAX_FRAME_SYNC_ERR, so one with sync_err = 1 after last_sync_err = 0, is
\* produced with total_sync_err = 0; last_sync_err is the sync_err of the frame
\* before, so a single sync-bit error between clean frames fails no check; a
\* process() call stops before a whole frame only by losing frame sync on it,
\* which that frame's failed check and the failed check of the frame before
\* it are needed for.
C19_SingleErrorTolerated ==
  /\ \A i \in DOMAIN frames :
       /\ (frames[i].sync_err = 1 /\ frames[i].last_sync_err = 0) =>
            frames[i].total_sync_err = 0
       /\ frames[i].sync_err + frames[i].last_sync_err <= MAX_FRAME_SYNC_ERR =>
            frames[i].total_sync_err = 0
       /\ i > 1 => frames[i].last_sync_err = frames[i - 1].sync_err
       /\ (/\ i > 1 /\ i < Len(frames)
           /\ frames[i - 1].sync_err = 0
           /\ frames[i].sync_err <= MAX_FRAME_SYNC_ERR
           /\ frames[i + 1].sync_err = 0) =>
            frames[i].total_sync_err = 0 /\ frames[i + 1].total_sync_err = 0
  /\ (call.name = "process" /\ (call.sync \/ acq.found)) =>
       IF call.r = -1
       THEN /\ phys_ch.data_len >= FRAME_LEN
            /\ cmp_frame_sync(phys_ch.data, 0) + phys_ch.last_sync_err >
                 MAX_FRAME_SYNC_ERR
            /\ frames # <<>> => SyncFailed(Len(frames))
       ELSE phys_ch.data_len < FRAME_LEN

\* a frame with one sync-bit error was produced after last_sync_err = 0, and a
\* clean frame after it, both with total_sync_err = 0
C19_Witness ==
  \E i \in DOMAIN frames :
    /\ frames[i].sync_err = 1
    /\ frames[i].last_sync_err = 0
    /\ frames[i].total_sync_err = 0
    /\ i < Len(frames)
    /\ frames[i + 1].sync_err = 0
    /\ frames[i + 1].total_sync_err = 0
    /\ phys_ch.has_frame_sync

\* a channel that process() leaves as it is
Quiescent(ch) ==
  IF ch.has_frame_sync
  THEN ch.data_len < FRAME_LEN
  ELSE ch.data_len <= FRAME_LEN + FRAME_HDR_LEN

\* what every process() call on a channel that is not quiescent decreases
Measure(ch) == 2 * ch.data_len + (IF ch.has_frame_sync THEN 1 ELSE 0)

\* the effect claimed of a process() step
QuiescenceStep ==
  /\ Measure(phys_ch) >= 0
  /\ IF Quiescent(phys_ch)
     THEN phys_ch' = phys_ch /\ frames' = <<>> /\ trace' = <<>>
     ELSE /\ Measure(phys_ch') < Measure(phys_ch)
          /\ phys_ch'.data_len <= phys_ch.data_len
          /\ \/ phys_ch'.data_len < phys_ch.data_len
             \/ phys_ch'.has_frame_sync # phys_ch.has_frame_sync
  /\ acq'.found =>
       /\ Len(frames') >= 1
       /\ phys_ch'.data_len <= phys_ch.data_len - FRAME_LEN
  /\ (Quiescent(phys_ch') /\ ~phys_ch'.has_frame_sync) =>
       phys_ch'.data_len < DATA_SIZE

\* C20: a process() call leaves a channel with frame sync and less than a
\* frame, or without frame sync and at most FRAME_LEN + FRAME_HDR_LEN bits, as
\* it is; on any other channel it decreases data_len or toggles has_frame_sync,
\* never increases data_len, and decreases 2 * data_len + (1 with frame sync),
\* which is never negative, so that process() calls without recv come to such a
\* channel after finitely many calls; a call that acquires frame sync produces
\* a frame, so that no cycle of acquisition and loss leaves data_len as it is.
C20_Quiescence ==
  [][call'.name = "process" => QuiescenceStep]_vars

\* a process() call that lost frame sync on the frame at the head of a full
\* buffer: nothing was consumed, and the next call can only search
C20_Witness ==
  /\ call.name = "process" /\ call.sync /\ call.r = -1
  /\ frames = <<>>
  /\ call.len = DATA_SIZE
  /\ phys_ch.data_len = DATA_SIZE
  /\ ~phys_ch.has_frame_sync
  /\ ~Quiescent(phys_ch)

====
